---- MODULE Spec2Model ----
(***************************************************************************)
(* ConfigPydleClient (src/ConfigPydle.py): the session lifecycle of an IRC *)
(* client layered on the pydle protocol engine.  The asyncio event loop is *)
(* modelled as interleaving: every `await` of the source is a suspension   *)
(* point, and one action runs a coroutine from one suspension point to the *)
(* next.  The protocol engine (connection state, nickname, channel         *)
(* membership, event dispatch) is the environment.                         *)
(***************************************************************************)
EXTENDS Integers, Sequences, FiniteSets, TLC

\* ------------------------------------------------------------------ bounds
\* Task objects that exist at the same time (a finished, unreferenced task is
\* garbage collected and its identity reused).
MaxTasks == 2
\* Application tasks (other than check_membership) registered at the same time.
MaxAppTasks == 1

\* Ticks that pass while the engine's own connect (line 173) is awaited.
MaxDelegateTicks == 2

\* Calls of the engine's message/notice one send makes: one for a text sent
\* as it is (or an empty one), the wrapped lines and the single space otherwise.
MaxCalls == 2
\* Joins of one send that are counted.
MaxJoins == 2
\* Words and runs of whitespace of a text given to the wrapper.
MaxChunks == 3

\* ------------------------------------------------------- program constants
\* _rem = 10 in on_raw_001: the identity-recovery budget, in 1-second ticks.
RecoveryBudget == 10
\* _var_int_max['connect_timeout'].
ConnectTimeoutMax == 30
\* _default_config_keys['connect_timeout'].
DefaultConnectTimeout == 10
\* width of self.text_wrapper.
WrapWidth == 64

\* The configured nickname, acconfig['nickname'], and any other nickname.
NickCfg == "bot"
NickOther == "bot_"
Nicks == {NickCfg, NickOther}

\* Channel names known to the model; is_channel() is true of exactly these.
Channels == {"#a", "#b"}
Users == {"alice"}
Targets == Channels \cup Users

\* The optional settings on_raw_001 looks up in acconfig.
OptKeys == {"oper_username", "oper_password", "connect_modes", "away_message"}

TaskIds == 1..MaxTasks

VARIABLES
    \* protocol engine (pydle) state read by the client
    connected,          \* self.connected
    nickname,           \* self.nickname
    channels,           \* the channels the client is in: in_channel(c)
    welcomed,           \* numeric 001 already dispatched on this connection
    \* ConfigPydleClient fields
    autoperform_done,   \* self.autoperform_done
    acchannels,         \* self.acchannels
    acconfig,           \* the optional keys present in self.acconfig
    ev_tasks,           \* self.ev_tasks
    \* asyncio tasks created by add_ev_task
    task,
    \* on_raw_001 coroutine
    w_pc, w_rem, w_ticks, w_differs, w_log,
    \* on_disconnect coroutine
    d_pc, d_cur, d_seen, d_snap, d_reg,
    \* connect coroutine
    connect_timeout,    \* self.acconfig['connect_timeout']
    c_pc, c_rem, c_waited, c_ticks, c_last,
    \* message_or_notice coroutine
    s_pc, s_target, s_n, s_sent, s_joins, s_deferred, s_gate_in, s_first_in,
    s_call_ok, s_slept, s_spaced,
    s_text, s_wrap,     \* its arguments message and wrap
    \* a second message_or_notice coroutine, running at the same time
    p_pc, p_target, p_n, p_sent, p_wrap,
    \* __init__: the default argument objects of the function, which all
    \* calls share (line 89), and the last call: its arguments and settings,
    \* how it ended, whether it reached super().__init__ (line 153)
    k_dflt_def, k_dflt_req, k_in, k_result, k_base

vars == <<connected, nickname, channels, welcomed, autoperform_done, acchannels,
          acconfig, ev_tasks, task, w_pc, w_rem, w_ticks, w_differs, w_log,
          d_pc, d_cur, d_seen, d_snap, d_reg,
          connect_timeout, c_pc, c_rem, c_waited, c_ticks, c_last,
          s_pc, s_target, s_n, s_sent, s_joins, s_deferred, s_gate_in, s_first_in,
          s_call_ok, s_slept, s_spaced, s_text, s_wrap,
          p_pc, p_target, p_n, p_sent, p_wrap,
          k_dflt_def, k_dflt_req, k_in, k_result, k_base>>

engineVars == <<connected, nickname, channels, welcomed>>
cfgVars == <<acchannels, acconfig>>
wVars == <<w_pc, w_rem, w_ticks, w_differs, w_log>>
dVars == <<d_pc, d_cur, d_seen, d_snap, d_reg>>
cVars == <<connect_timeout, c_pc, c_rem, c_waited, c_ticks, c_last>>
sVars == <<s_pc, s_target, s_n, s_sent, s_joins, s_deferred, s_gate_in, s_first_in,
           s_call_ok, s_slept, s_spaced, s_text, s_wrap>>
pVars == <<p_pc, p_target, p_n, p_sent, p_wrap>>
kVars == <<k_dflt_def, k_dflt_req, k_in, k_result, k_base>>

\* ------------------------------------------------------------ engine reads
in_channel(c) == c \in channels
is_channel(t) == t \in Channels

\* ------------------------------------------------------------------- tasks
\* kind: "none" (no such task object), "cm" (check_membership), "app" (a
\* coroutine the application registered).  st: the await the coroutine is
\* suspended at: "sleep" (line 237, or not yet started), "join" (line 245),
\* "pause" (line 248), "run" (application coroutine), "done".
\* cancel: a cancellation request not yet delivered.  cb: the done callback
\* (ev_tasks.discard) is scheduled and has not run.  res: how the task ended.
\* todo: the part of acchannels the for loop has not reached.  cur: the
\* channel of the last join.  slept: a sleep finished since that join.
\* spaced, was_in: at the last join, slept and in_channel(cur).
NoTask == [kind |-> "none", st |-> "-", cancel |-> FALSE, cb |-> FALSE, res |-> "-",
           todo |-> {}, cur |-> "-", slept |-> TRUE, spaced |-> TRUE, was_in |-> FALSE]

NewTask(kind) == [NoTask EXCEPT !.kind = kind,
                                !.st = IF kind = "cm" THEN "sleep" ELSE "run"]

Alive(t) == task[t].kind # "none" /\ task[t].st # "done"
Maintainers == {t \in TaskIds : task[t].kind = "cm" /\ task[t].st # "done"}
AppTasks == {t \in TaskIds : task[t].kind = "app" /\ task[t].st # "done"}

\* The tasks the frame of on_disconnect refers to.
DRefs == d_reg \cup d_seen \cup d_snap \cup (IF d_cur = 0 THEN {} ELSE {d_cur})

\* Identities a new task can take: of no task, or of a finished task whose
\* callback ran and that no running on_disconnect refers to.
FreeIds ==
    {t \in TaskIds :
        \/ task[t].kind = "none"
        \/ /\ task[t].st = "done" /\ ~task[t].cb
           /\ (d_pc \in {"super", "await"} => t \notin DRefs)}
FreshId == CHOOSE t \in FreeIds : \A u \in FreeIds : t <= u

\* Garbage collection: a finished task whose callback ran and that
\* on_disconnect no longer refers to stops existing.
Collect(tk, refs) == [t \in TaskIds |->
                        IF tk[t].kind # "none" /\ tk[t].st = "done" /\ ~tk[t].cb
                           /\ t \notin refs
                        THEN NoTask ELSE tk[t]]

\* task.cancel(): a no-op on a finished task.
Cancel(tk, t) == IF tk[t].st = "done" THEN tk
                 ELSE [tk EXCEPT ![t].cancel = TRUE]

\* The coroutine ended: the task is done and its done callbacks are scheduled.
Finish(r, how) == [r EXCEPT !.st = "done", !.cancel = FALSE, !.cb = TRUE, !.res = how,
                            !.todo = {}, !.cur = "-", !.slept = TRUE, !.spaced = TRUE,
                            !.was_in = FALSE]

\* ----------------------------------------------------------------- __init__
\* A value of the configuration file is a string: the sequence of its
\* characters.
Str_10 == <<"1", "0">>
Str_6697 == <<"6", "6", "9", "7">>
\* Values given for connect_timeout and for port in the files of the model.
RawTimeouts ==
    {<<"0">>, <<"1">>, <<"3", "0">>, <<"3", "1">>, <<"-", "1">>, <<"y", "e", "s">>,
     <<"Y", "e", "s">>, <<"t", "r", "u", "e">>, <<"n", "o">>, <<"f", "a", "l", "s", "e">>,
     <<"n", "o", "n", "e">>, <<"a", "b", "c">>, <<>>}
RawPorts ==
    {<<"0">>, <<"1">>, <<"6", "5", "5", "3", "5">>, <<"6", "5", "5", "3", "6">>,
     <<"t", "r", "u", "e">>, <<"n", "o">>, <<"a", "b", "c">>}

\* _required_config_keys, _default_config_keys (its keys and the two values
\* the range checks read), _var_int_max, _boolean_false_values,
\* _boolean_true_values.
RequiredKeys == <<"hostname", "nickname", "realname", "username">>
DefaultKeys == {"connect_timeout", "port", "sasl_mechanism", "tls", "tls_verify"}
PortMax == 65535
BooleanFalse == {<<"f", "a", "l", "s", "e">>, <<"n", "o">>}
BooleanTrue == {<<"t", "r", "u", "e">>, <<"y", "e", "s">>}

\* A key the caller of __init__ requires in addition.
CallerKey == "apikey"
FileKeys == {RequiredKeys[i] : i \in 1..Len(RequiredKeys)} \cup {CallerKey}

\* int(value) of line 119, for a value made of "-" and decimal digits.
Digits == <<"0", "1", "2", "3", "4", "5", "6", "7", "8", "9">>
IsDigit(c) == \E d \in 1..10 : Digits[d] = c
DigitVal(c) == (CHOOSE d \in 1..10 : Digits[d] = c) - 1
RECURSIVE DigitsVal(_)
DigitsVal(s) ==
    IF s = <<>> THEN 0
    ELSE 10 * DigitsVal(SubSeq(s, 1, Len(s) - 1)) + DigitVal(s[Len(s)])
Unsigned(s) == IF s # <<>> /\ s[1] = "-" THEN Tail(s) ELSE s
IsInt(s) == Unsigned(s) # <<>> /\ \A i \in 1..Len(Unsigned(s)) : IsDigit(Unsigned(s)[i])
IntVal(s) == IF s[1] = "-" THEN 0 - DigitsVal(Tail(s)) ELSE DigitsVal(s)

\* str.lower() on the letters of the model.
Lower(c) == IF c = "Y" THEN "y" ELSE IF c = "T" THEN "t" ELSE IF c = "N" THEN "n" ELSE c
LowerStr(s) == [i \in 1..Len(s) |-> Lower(s[i])]

\* Lines 116-132: the Python value a string of the file becomes.  t is its
\* type; v is its value as a number (False is 0 and True is 1, as a bool
\* compares).
Typed(raw) ==
    IF IsInt(raw) THEN [t |-> "int", v |-> IntVal(raw)]
    ELSE IF LowerStr(raw) \in BooleanFalse THEN [t |-> "bool", v |-> 0]
    ELSE IF LowerStr(raw) \in BooleanTrue THEN [t |-> "bool", v |-> 1]
    ELSE IF LowerStr(raw) = <<"n", "o", "n", "e">> THEN [t |-> "none", v |-> 0]
    ELSE [t |-> "str", v |-> 0]

\* isinstance(value, int) of line 139: bool is a subclass of int.
IsInstanceInt(x) == x.t \in {"int", "bool"}

\* Lines 139-145 for one variable: whether a ValueError is raised.
OutOfRange(x, max) == ~IsInstanceInt(x) \/ x.v < 1 \/ x.v > max

\* Lines 138-145: the variable the ValueError is about, or "-".
RangeError(timeout, port) ==
    IF OutOfRange(timeout, ConnectTimeoutMax) THEN "connect_timeout"
    ELSE IF OutOfRange(port, PortMax) THEN "port"
    ELSE "-"

\* (mutant) lines 104-106 with the caller's list taken as it is.
WithRequired_CallerOnly(list) == IF list = <<>> THEN RequiredKeys ELSE list

\* Lines 104-106: the built-in required keys the list lacks are appended to
\* it (to the list object itself).
WithRequired(list) ==
    list \o SelectSeq(RequiredKeys, LAMBDA key : \A i \in 1..Len(list) : list[i] # key)

\* Lines 134-136: the first key of the list that acconfig lacks, or "-".
FirstMissing(list, keys) ==
    IF \A i \in 1..Len(list) : list[i] \in keys THEN "-"
    ELSE list[CHOOSE i \in 1..Len(list) :
                 /\ list[i] \notin keys
                 /\ \A j \in 1..(i - 1) : list[j] \in keys]

\* The arguments of a call of __init__ and the file at path.  path: a path is
\* given.  own_def, own_req: the caller passes its own default_config_keys
\* and required_config_keys (def_keys, req_list) and not the default objects.
\* file: the keys the file sets, other than the two integer settings;
\* has_timeout, has_port, timeout, port: the integer settings it sets.
NoInput == [path |-> FALSE, own_def |-> FALSE, def_keys |-> {}, own_req |-> FALSE,
            req_list |-> <<>>, file |-> {}, has_timeout |-> FALSE, timeout |-> <<>>,
            has_port |-> FALSE, port |-> <<>>]

\* Files that differ in the keys they set, with every way to pass the lists.
KeyInputs ==
    {[NoInput EXCEPT !.path = TRUE, !.own_def = d[1], !.def_keys = d[2],
                     !.own_req = r[1], !.req_list = r[2], !.file = f] :
        d \in {<<FALSE, {}>>, <<TRUE, {}>>, <<TRUE, {"hostname"}>>},
        r \in {<<FALSE, <<>>>>, <<TRUE, <<>>>>, <<TRUE, <<CallerKey>>>>},
        f \in SUBSET FileKeys}
\* Files that set every required key and differ in the integer settings.
IntInputs ==
    {[NoInput EXCEPT !.path = TRUE, !.file = FileKeys, !.has_timeout = TRUE, !.timeout = t,
                     !.has_port = hp, !.port = IF hp THEN p ELSE <<>>] :
        t \in RawTimeouts, hp \in BOOLEAN, p \in RawPorts}
    \cup {[NoInput EXCEPT !.path = TRUE, !.file = FileKeys, !.has_port = TRUE, !.port = p] :
        p \in RawPorts}
ConfigInputs == KeyInputs \cup IntInputs \cup {NoInput}

\* The keys of acconfig after lines 108-132: the keys of the file and, through
\* the parser's defaults, the keys of default_config_keys.
ConfigKeys(in, defs) ==
    in.file \cup defs \cup (IF in.has_timeout THEN {"connect_timeout"} ELSE {})
            \cup (IF in.has_port THEN {"port"} ELSE {})
\* acconfig['connect_timeout'] and acconfig['port'] after lines 108-132.
ConfigTimeout(in) == Typed(IF in.has_timeout THEN in.timeout ELSE Str_10)
ConfigPort(in) == Typed(IF in.has_port THEN in.port ELSE Str_6697)

\* __init__ (lines 89-153) is called.  Without a path it raises at once
\* (lines 98-99).  Otherwise the defaults and the required keys are completed
\* in the argument objects, the file is read and typed, and the call raises
\* KeyError for the first required key that is missing, ValueError for the
\* first integer setting out of range, or goes on to super().__init__.
Construct(in) ==
    LET defs == (IF in.own_def THEN in.def_keys ELSE k_dflt_def) \cup DefaultKeys
        req  == WithRequired(IF in.own_req THEN in.req_list ELSE k_dflt_req)
        miss == FirstMissing(req, ConfigKeys(in, defs))
        rng  == RangeError(ConfigTimeout(in), ConfigPort(in))
        res  == IF ~in.path THEN <<"ValueError", "path">>
                ELSE IF miss # "-" THEN <<"KeyError", miss>>
                ELSE IF rng # "-" THEN <<"ValueError", rng>>
                ELSE <<"ok", "-">>
    IN  /\ k_in' = in
        /\ k_result' = res
        /\ k_base' = (res[1] = "ok")
        /\ k_dflt_def' = IF in.path /\ ~in.own_def THEN defs ELSE k_dflt_def
        /\ k_dflt_req' = IF in.path /\ ~in.own_req THEN req ELSE k_dflt_req
        /\ UNCHANGED <<engineVars, autoperform_done, cfgVars, ev_tasks, task, wVars,
                       dVars, cVars, sVars, pVars>>

\* --------------------------------------------------------------------- Init
TypeOK ==
    /\ connected \in BOOLEAN /\ nickname \in Nicks /\ channels \subseteq Channels
    /\ welcomed \in BOOLEAN /\ autoperform_done \in BOOLEAN
    /\ acchannels \subseteq Channels /\ acconfig \subseteq OptKeys
    /\ ev_tasks \subseteq TaskIds
    /\ w_pc \in {"idle", "super", "release", "regain", "rsleep", "oper", "modes", "away"}
    /\ w_rem \in 0..RecoveryBudget /\ w_ticks \in 0..RecoveryBudget
    /\ d_pc \in {"idle", "super", "await", "returned", "raised"}
    /\ d_cur \in TaskIds \cup {0}
    /\ connect_timeout \in 1..ConnectTimeoutMax
    /\ c_pc \in {"idle", "delegate", "wait", "returned"}
    /\ c_rem \in 0..ConnectTimeoutMax /\ c_waited \in 0..ConnectTimeoutMax
    /\ s_pc \in {"idle", "gate", "join", "jsleep", "send", "done"}
    /\ s_target \in Targets \cup {"-"}
    /\ s_n \in Nat /\ s_sent \in 0..s_n /\ s_joins \in 0..MaxJoins
    /\ s_wrap \in BOOLEAN /\ \A i \in 1..Len(s_text) : s_text[i].len \in 1..(WrapWidth + 1)
    /\ s_gate_in \in {"-", "in", "out"}

\* The state after __init__ (lines 91-94), before connect() is called.
InitClient ==
    /\ connected = FALSE /\ nickname = NickOther /\ channels = {} /\ welcomed = FALSE
    /\ autoperform_done = FALSE
    /\ ev_tasks = {}
    /\ task = [t \in TaskIds |-> NoTask]
    /\ w_pc = "idle" /\ w_rem = 0 /\ w_ticks = 0 /\ w_differs = FALSE /\ w_log = <<>>
    /\ d_pc = "idle" /\ d_cur = 0 /\ d_seen = {} /\ d_snap = {} /\ d_reg = {}
    /\ c_pc = "idle" /\ c_rem = 0 /\ c_waited = 0 /\ c_ticks = 0 /\ c_last = FALSE
    /\ s_pc = "idle" /\ s_target = "-" /\ s_n = 0 /\ s_sent = 0 /\ s_joins = 0
    /\ s_deferred = FALSE /\ s_gate_in = "-" /\ s_first_in = TRUE /\ s_call_ok = TRUE
    /\ s_slept = TRUE /\ s_spaced = TRUE
    /\ s_text = <<>> /\ s_wrap = FALSE
    /\ p_pc = "idle" /\ p_target = "-" /\ p_n = 0 /\ p_sent = 0 /\ p_wrap = FALSE
    /\ k_dflt_def = {} /\ k_dflt_req = <<>> /\ k_in = NoInput
    /\ k_result = <<"none", "-">> /\ k_base = FALSE

\* ------------------------------------------------------------------- engine
\* The event loop runs the callbacks that are scheduled before it handles
\* input that arrives later: no engine event comes between the end of a task
\* and its done callback.
LoopQuiet == \A t \in TaskIds : ~task[t].cb

\* The engine reports the connection up; the server assigned nickname n.
EngineConnected(n) ==
    /\ LoopQuiet
    /\ ~connected
    /\ connected' = TRUE /\ nickname' = n /\ channels' = {} /\ welcomed' = FALSE
    /\ UNCHANGED <<autoperform_done, cfgVars, ev_tasks, task, wVars, dVars>>
    /\ UNCHANGED <<cVars, sVars, pVars, kVars>>

\* The server changes the client's nickname (a regain that succeeded, a forced rename).
EngineNick(n) ==
    /\ LoopQuiet
    /\ connected /\ n # nickname
    /\ nickname' = n
    /\ UNCHANGED <<connected, channels, welcomed, autoperform_done, cfgVars, ev_tasks,
                   task, wVars, dVars>>
    /\ UNCHANGED <<cVars, sVars, pVars, kVars>>

\* The server confirms a JOIN of channel c.
EngineJoin(c) ==
    /\ LoopQuiet
    /\ connected /\ c \notin channels
    /\ channels' = channels \cup {c}
    /\ UNCHANGED <<connected, nickname, welcomed, autoperform_done, cfgVars, ev_tasks,
                   task, wVars, dVars>>
    /\ UNCHANGED <<cVars, sVars, pVars, kVars>>

\* The client is removed from channel c (kick, part).
EnginePart(c) ==
    /\ LoopQuiet
    /\ c \in channels
    /\ channels' = channels \ {c}
    /\ UNCHANGED <<connected, nickname, welcomed, autoperform_done, cfgVars, ev_tasks,
                   task, wVars, dVars>>
    /\ UNCHANGED <<cVars, sVars, pVars, kVars>>

\* ------------------------------------------------------------- add_ev_task
\* add_ev_task(coro), lines 159-161: no await inside, so it runs in one step.
AddTaskTo(tk, kind) == [tk EXCEPT ![FreshId] = NewTask(kind)]

\* The application registers a coroutine of its own.
AddEvTask ==
    /\ FreeIds # {} /\ Cardinality(AppTasks) < MaxAppTasks
    /\ task' = AddTaskTo(task, "app")
    /\ ev_tasks' = ev_tasks \cup {FreshId}
    /\ UNCHANGED <<engineVars, autoperform_done, cfgVars, wVars, dVars>>
    /\ UNCHANGED <<cVars, sVars, pVars, kVars>>

\* (mutant) add_ev_task without line 160: the callback removes nothing.
DoneCallback_NoDiscard(t) ==
    /\ task[t].kind # "none" /\ task[t].cb
    /\ ev_tasks' = ev_tasks
    /\ task' = Collect([task EXCEPT ![t].cb = FALSE], DRefs \cup ev_tasks)
    /\ UNCHANGED <<engineVars, autoperform_done, cfgVars, wVars, dVars>>
    /\ UNCHANGED <<cVars, sVars, pVars, kVars>>

\* The done callback registered at line 160 runs: ev_tasks.discard(task).
DoneCallback(t) ==
    /\ task[t].kind # "none" /\ task[t].cb
    /\ ev_tasks' = ev_tasks \ {t}
    /\ task' = Collect([task EXCEPT ![t].cb = FALSE], DRefs)
    /\ UNCHANGED <<engineVars, autoperform_done, cfgVars, wVars, dVars>>
    /\ UNCHANGED <<cVars, sVars, pVars, kVars>>

\* An application coroutine ends: by itself (returned, error), or at the
\* delivery of a cancellation request (cancelled, error, returned).
AppTaskEnd(t, how) ==
    /\ task[t].kind = "app" /\ task[t].st = "run"
    /\ how = "cancelled" => task[t].cancel
    /\ task' = [task EXCEPT ![t] = Finish(task[t], how)]
    /\ UNCHANGED <<engineVars, autoperform_done, cfgVars, ev_tasks, wVars, dVars>>
    /\ UNCHANGED <<cVars, sVars, pVars, kVars>>

\* -------------------------------------------------------------- on_raw_001
HasOper == {"oper_username", "oper_password"} \subseteq acconfig

\* The coroutine's frame: where it is suspended, _rem, the sleeps of line 192
\* it has finished, the test of line 186, and the requests it has sent.  The
\* frame does not outlive the coroutine.
W_Frame(pc, rem, ticks, differs, log) ==
    /\ w_pc' = pc /\ w_rem' = rem /\ w_ticks' = ticks /\ w_differs' = differs
    /\ w_log' = log

\* (mutant) lines 195-210 without line 208.
Autoperform_NoSpawn(k, rem, ticks, differs) ==
    IF k <= 1 /\ HasOper
    THEN /\ W_Frame("oper", rem, ticks, differs, Append(w_log, "OPER"))
         /\ UNCHANGED <<task, ev_tasks, autoperform_done>>
    ELSE IF k <= 2 /\ "connect_modes" \in acconfig
    THEN /\ W_Frame("modes", rem, ticks, differs, Append(w_log, "MODE"))
         /\ UNCHANGED <<task, ev_tasks, autoperform_done>>
    ELSE IF k <= 3 /\ "away_message" \in acconfig
    THEN /\ W_Frame("away", rem, ticks, differs, Append(w_log, "AWAY"))
         /\ UNCHANGED <<task, ev_tasks, autoperform_done>>
    ELSE /\ autoperform_done' = TRUE
         /\ W_Frame("idle", 0, 0, FALSE, <<>>)
         /\ UNCHANGED <<task, ev_tasks>>

\* Lines 195-210 from step k on (1 OPER, 2 MODE, 3 away, 4 spawn), up to the
\* next await: the raw/away call of the first configured step, or else
\* add_ev_task(check_membership()) and autoperform_done = True.
Autoperform(k, rem, ticks, differs) ==
    IF k <= 1 /\ HasOper
    THEN /\ W_Frame("oper", rem, ticks, differs, Append(w_log, "OPER"))
         /\ UNCHANGED <<task, ev_tasks, autoperform_done>>
    ELSE IF k <= 2 /\ "connect_modes" \in acconfig
    THEN /\ W_Frame("modes", rem, ticks, differs, Append(w_log, "MODE"))
         /\ UNCHANGED <<task, ev_tasks, autoperform_done>>
    ELSE IF k <= 3 /\ "away_message" \in acconfig
    THEN /\ W_Frame("away", rem, ticks, differs, Append(w_log, "AWAY"))
         /\ UNCHANGED <<task, ev_tasks, autoperform_done>>
    ELSE /\ FreeIds # {}
         /\ task' = AddTaskTo(task, "cm")
         /\ ev_tasks' = ev_tasks \cup {FreshId}
         /\ autoperform_done' = TRUE
         /\ W_Frame("idle", 0, 0, FALSE, <<>>)

\* (mutant) the loop of line 191 without its budget test.
RecoveryWait_NoBudget(rem, ticks) ==
    IF nickname # NickCfg
    THEN /\ W_Frame("rsleep", rem, ticks, w_differs, w_log)
         /\ UNCHANGED <<task, ev_tasks, autoperform_done>>
    ELSE Autoperform(1, rem, ticks, w_differs)

\* The loop test of line 191 with rem ticks left, then the sleep of line 192
\* or the code after the loop.
RecoveryWait(rem, ticks) ==
    IF rem # 0 /\ nickname # NickCfg
    THEN /\ W_Frame("rsleep", rem, ticks, w_differs, w_log)
         /\ UNCHANGED <<task, ev_tasks, autoperform_done>>
    ELSE Autoperform(1, rem, ticks, w_differs)

\* The engine dispatches numeric 001: on_raw_001 runs to line 184.
Welcome ==
    /\ LoopQuiet
    /\ connected /\ ~welcomed /\ w_pc = "idle"
    /\ welcomed' = TRUE
    /\ W_Frame("super", 0, 0, FALSE, <<>>)
    /\ UNCHANGED <<connected, nickname, channels, autoperform_done, cfgVars, ev_tasks,
                   task, dVars>>
    /\ UNCHANGED <<cVars, sVars, pVars, kVars>>

\* super().on_raw_001 returns; line 186, then raw(RELEASE) or lines 195-210.
W_Super ==
    /\ w_pc = "super"
    /\ IF nickname # NickCfg
       THEN /\ W_Frame("release", 0, 0, TRUE, <<"RELEASE">>)
            /\ UNCHANGED <<task, ev_tasks, autoperform_done>>
       ELSE Autoperform(1, 0, 0, FALSE)
    /\ UNCHANGED <<engineVars, cfgVars, dVars>>
    /\ UNCHANGED <<cVars, sVars, pVars, kVars>>

\* raw(RELEASE) returns; line 189.
W_Release ==
    /\ w_pc = "release"
    /\ W_Frame("regain", w_rem, w_ticks, w_differs, Append(w_log, "REGAIN"))
    /\ UNCHANGED <<engineVars, autoperform_done, cfgVars, ev_tasks, task, dVars>>
    /\ UNCHANGED <<cVars, sVars, pVars, kVars>>

\* raw(REGAIN) returns; lines 190-191.
W_Regain ==
    /\ w_pc = "regain"
    /\ RecoveryWait(RecoveryBudget, w_ticks)
    /\ UNCHANGED <<engineVars, cfgVars, dVars>>
    /\ UNCHANGED <<cVars, sVars, pVars, kVars>>

\* sleep(1) of line 192 returns; line 193, then the loop test again.
W_RSleep ==
    /\ w_pc = "rsleep"
    /\ RecoveryWait(w_rem - 1, w_ticks + 1)
    /\ UNCHANGED <<engineVars, cfgVars, dVars>>
    /\ UNCHANGED <<cVars, sVars, pVars, kVars>>

\* raw(OPER) returns.
W_Oper ==
    /\ w_pc = "oper"
    /\ Autoperform(2, w_rem, w_ticks, w_differs)
    /\ UNCHANGED <<engineVars, cfgVars, dVars>>
    /\ UNCHANGED <<cVars, sVars, pVars, kVars>>

\* raw(MODE) returns.
W_Modes ==
    /\ w_pc = "modes"
    /\ Autoperform(3, w_rem, w_ticks, w_differs)
    /\ UNCHANGED <<engineVars, cfgVars, dVars>>
    /\ UNCHANGED <<cVars, sVars, pVars, kVars>>

\* away() returns.
W_Away ==
    /\ w_pc = "away"
    /\ Autoperform(4, w_rem, w_ticks, w_differs)
    /\ UNCHANGED <<engineVars, cfgVars, dVars>>
    /\ UNCHANGED <<cVars, sVars, pVars, kVars>>

\* ----------------------------------------------------------- on_disconnect
\* The `for task in self.ev_tasks` statement asks the set iterator for the
\* next task, with the registry now ev: a set whose size changed since the
\* iterator was made raises RuntimeError, outside both try blocks; the
\* iteration ends when no task of the set is left to visit, and a task added
\* since the iterator was made may be visited or missed.  Then the loop body
\* up to `await task` (lines 222-224): a finished task is awaited without
\* suspending, line 229 removes it, and the next request to the iterator
\* raises.
D_Iterate(ev, snap, seen) ==
    IF Cardinality(ev) # Cardinality(snap)
    THEN /\ d_pc' = "raised" /\ d_cur' = 0 /\ d_seen' = seen
         /\ ev_tasks' = ev /\ task' = task
    ELSE \E t \in (ev \ seen) \cup (IF (ev \ seen) \cap snap = {} THEN {0} ELSE {}) :
            IF t = 0
            THEN /\ d_pc' = "returned" /\ d_cur' = 0 /\ d_seen' = seen
                 /\ ev_tasks' = ev /\ task' = task
            ELSE IF task[t].st = "done"
            THEN /\ d_pc' = "raised" /\ d_cur' = 0 /\ d_seen' = seen \cup {t}
                 /\ ev_tasks' = ev \ {t} /\ task' = task
            ELSE /\ d_pc' = "await" /\ d_cur' = t /\ d_seen' = seen \cup {t}
                 /\ ev_tasks' = ev /\ task' = Cancel(task, t)

\* The connection drops: the engine resets its state and calls
\* on_disconnect, which runs to line 216.
EngineDisconnect ==
    /\ LoopQuiet
    /\ connected /\ d_pc \in {"idle", "returned", "raised"}
    /\ connected' = FALSE /\ nickname' = NickOther /\ channels' = {}
    /\ welcomed' = FALSE
    /\ d_pc' = "super" /\ d_cur' = 0 /\ d_seen' = {} /\ d_snap' = {}
    /\ d_reg' = ev_tasks
    /\ task' = Collect(task, {})
    /\ UNCHANGED <<autoperform_done, cfgVars, ev_tasks, wVars>>
    /\ UNCHANGED <<cVars, sVars, pVars, kVars>>

\* super().on_disconnect returns; line 218, then the for loop starts.
D_Super ==
    /\ d_pc = "super"
    /\ autoperform_done' = FALSE
    /\ d_snap' = ev_tasks
    /\ D_Iterate(ev_tasks, ev_tasks, {})
    /\ UNCHANGED <<engineVars, cfgVars, wVars, d_reg>>
    /\ UNCHANGED <<cVars, sVars, pVars, kVars>>

\* `await task` ends (line 224): the task is done and its done callback,
\* registered before this waiter, has run.  Lines 225-231, then the for
\* statement again.
D_Await ==
    /\ d_pc = "await"
    /\ task[d_cur].st = "done" /\ ~task[d_cur].cb
    /\ D_Iterate(ev_tasks \ {d_cur}, d_snap, d_seen)
    /\ UNCHANGED <<engineVars, autoperform_done, cfgVars, wVars, d_snap, d_reg>>
    /\ UNCHANGED <<cVars, sVars, pVars, kVars>>

\* -------------------------------------------------------- check_membership
\* Line 243: the channel is joined only if the client is not in it.
NeedsJoin(c) == ~in_channel(c)

\* The sleep of line 248 after a join (lines 244-248).
AfterJoin == "pause"

\* The for loop of lines 242-248 over the channels todo it has not reached,
\* up to the next await.  The iteration order of the set is not fixed: the
\* next channel to join is any unreached channel that needs a join, and any
\* of the unreached channels that need none may come before it.  With none
\* to join the loop ends and the task is back at the sleep of line 237.
ForChannels(t, r, todo) ==
    IF {c \in todo : NeedsJoin(c)} = {}
    THEN task' = [task EXCEPT ![t] = [r EXCEPT !.st = "sleep", !.todo = {}]]
    ELSE \E c \in {x \in todo : NeedsJoin(x)} :
         \E skipped \in SUBSET {x \in todo : ~NeedsJoin(x)} :
            task' = [task EXCEPT ![t] =
                        [r EXCEPT !.st = "join", !.cur = c,
                                  !.todo = todo \ ({c} \cup skipped),
                                  !.spaced = r.slept, !.slept = FALSE,
                                  !.was_in = in_channel(c)]]

\* sleep(1) of line 237 returns, or a cancellation request is delivered
\* there (also to a task that has not started): CancelledError leaves the
\* coroutine.  Otherwise line 239, then the for loop.
CM_Sleep(t) ==
    /\ task[t].kind = "cm" /\ task[t].st = "sleep"
    /\ IF task[t].cancel
       THEN task' = [task EXCEPT ![t] = Finish(task[t], "cancelled")]
       ELSE IF ~(connected /\ autoperform_done)
       THEN task' = [task EXCEPT ![t].slept = TRUE]
       ELSE ForChannels(t, [task[t] EXCEPT !.slept = TRUE], acchannels)
    /\ UNCHANGED <<engineVars, autoperform_done, cfgVars, ev_tasks, wVars, dVars>>
    /\ UNCHANGED <<cVars, sVars, pVars, kVars>>

\* join(channel) of line 245 returns or raises, or a cancellation request
\* is delivered there: the bare except of line 246 catches every one of
\* them, CancelledError included.  Then the sleep of line 248.
CM_Join(t) ==
    /\ task[t].kind = "cm" /\ task[t].st = "join"
    /\ task' = [task EXCEPT ![t].st = AfterJoin, ![t].cancel = FALSE]
    /\ UNCHANGED <<engineVars, autoperform_done, cfgVars, ev_tasks, wVars, dVars>>
    /\ UNCHANGED <<cVars, sVars, pVars, kVars>>

\* sleep(1) of line 248 returns, or a cancellation request is delivered
\* there.  Otherwise the for loop goes on.
CM_Pause(t) ==
    /\ task[t].kind = "cm" /\ task[t].st = "pause"
    /\ IF task[t].cancel
       THEN task' = [task EXCEPT ![t] = Finish(task[t], "cancelled")]
       ELSE ForChannels(t, [task[t] EXCEPT !.slept = TRUE], task[t].todo)
    /\ UNCHANGED <<engineVars, autoperform_done, cfgVars, ev_tasks, wVars, dVars>>
    /\ UNCHANGED <<cVars, sVars, pVars, kVars>>

\* ------------------------------------------------------------------ connect
\* (mutant) the loop of line 176 without its budget test.
ConnectWait_NoBudget(rem, waited, ticks) ==
    /\ c_last' = connected
    /\ c_rem' = rem /\ c_waited' = waited /\ c_ticks' = ticks
    /\ c_pc' = IF ~connected THEN "wait" ELSE "returned"

\* The loop test of line 176 with rem ticks left, after waited sleeps and
\* ticks ticks since the call: the sleep of line 177, or the return.
ConnectWait(rem, waited, ticks) ==
    /\ c_last' = connected
    /\ c_rem' = rem /\ c_waited' = waited /\ c_ticks' = ticks
    /\ c_pc' = IF rem # 0 /\ ~connected THEN "wait" ELSE "returned"

\* connect(reconnect) is called and runs to the await of line 173.
C_Call ==
    /\ c_pc \in {"idle", "returned"}
    /\ c_pc' = "delegate" /\ c_rem' = 0 /\ c_waited' = 0 /\ c_ticks' = 0
    /\ c_last' = FALSE
    /\ UNCHANGED <<engineVars, autoperform_done, cfgVars, ev_tasks, task, wVars, dVars,
                   connect_timeout, sVars, pVars, kVars>>

\* A second passes while super().connect is awaited.
C_DelegateTick ==
    /\ c_pc = "delegate" /\ c_ticks < MaxDelegateTicks
    /\ c_ticks' = c_ticks + 1
    /\ UNCHANGED <<engineVars, autoperform_done, cfgVars, ev_tasks, task, wVars, dVars,
                   connect_timeout, c_pc, c_rem, c_waited, c_last, sVars, pVars, kVars>>

\* super().connect returns; line 175, then the loop test.
C_Delegate ==
    /\ c_pc = "delegate"
    /\ ConnectWait(connect_timeout, 0, c_ticks)
    /\ UNCHANGED <<engineVars, autoperform_done, cfgVars, ev_tasks, task, wVars, dVars,
                   connect_timeout, sVars, pVars, kVars>>

\* sleep(1) of line 177 returns; line 178, then the loop test again.
C_Wait ==
    /\ c_pc = "wait"
    /\ ConnectWait(c_rem - 1, c_waited + 1, c_ticks + 1)
    /\ UNCHANGED <<engineVars, autoperform_done, cfgVars, ev_tasks, task, wVars, dVars,
                   connect_timeout, sVars, pVars, kVars>>

\* ------------------------------------------------------------- text_wrapper
\* A text is the sequence of its chunks, as the wrapper splits it: words and
\* runs of whitespace in turn, each with its length in characters.  The
\* texts of the model are made of letters and blanks (no hyphen, no tab).
ChunkLens == {1, 32, WrapWidth, WrapWidth + 1}
Chunk == [sp : BOOLEAN, len : ChunkLens]
Alternates(text) == \A i \in 1..(Len(text) - 1) : text[i].sp # text[i + 1].sp
Texts ==
    UNION {{text \in [1..k -> Chunk] : Alternates(text)} : k \in 0..MaxChunks}

\* A message given to the engine is a sequence of pieces of the text's
\* chunks; src is the chunk's position in the text.
Whole(text) == [i \in 1..Len(text) |-> [sp |-> text[i].sp, len |-> text[i].len, src |-> i]]
\* The message ' ' of lines 273 and 277.
SingleSpace == <<[sp |-> TRUE, len |-> 1, src |-> 0]>>

RECURSIVE LineLen(_)
LineLen(line) == IF line = <<>> THEN 0 ELSE Head(line).len + LineLen(Tail(line))

\* chunk.strip() == '' of the wrapper: whitespace, or nothing at all.
IsBlank(p) == p.sp \/ p.len = 0

\* The wrapper's inner loop: chunks go to the current line while they fit.
RECURSIVE Fill(_, _, _)
Fill(chunks, cur, cur_len) ==
    IF chunks # <<>> /\ cur_len + Head(chunks).len <= WrapWidth
    THEN Fill(Tail(chunks), Append(cur, Head(chunks)), cur_len + Head(chunks).len)
    ELSE [cur |-> cur, rest |-> chunks]

\* (mutant) the wrapper with break_long_words = False: a chunk wider than the
\* line is put whole on a line of its own.
HandleLongWord_Whole(f) ==
    IF f.cur = <<>>
    THEN [cur |-> <<Head(f.rest)>>, rest |-> Tail(f.rest)]
    ELSE f

\* The wrapper's _handle_long_word with break_long_words left at its default
\* (line 95 does not set it): the part of the chunk that fills the line goes
\* to the line, the remainder stays.
HandleLongWord(f) ==
    LET space_left == WrapWidth - LineLen(f.cur)
        h == Head(f.rest)
    IN  [cur  |-> Append(f.cur, [h EXCEPT !.len = space_left]),
         rest |-> <<[h EXCEPT !.len = h.len - space_left]>> \o Tail(f.rest)]

\* drop_whitespace = True: a blank chunk at the end of the line is dropped.
DropTrailing(cur) ==
    IF cur # <<>> /\ IsBlank(cur[Len(cur)]) THEN SubSeq(cur, 1, Len(cur) - 1) ELSE cur

\* The wrapper's outer loop, one line per round: a blank chunk at the start
\* of a line that is not the first is dropped, the line is filled, a chunk
\* wider than the width is broken, and a line left empty is not emitted.
RECURSIVE WrapChunks(_, _)
WrapChunks(chunks, lines) ==
    IF chunks = <<>> THEN lines
    ELSE LET c0  == IF IsBlank(Head(chunks)) /\ lines # <<>> THEN Tail(chunks) ELSE chunks
             f   == Fill(c0, <<>>, 0)
             g   == IF f.rest # <<>> /\ Head(f.rest).len > WrapWidth
                    THEN HandleLongWord(f) ELSE f
             cur == DropTrailing(g.cur)
         IN  WrapChunks(g.rest, IF cur # <<>> THEN Append(lines, cur) ELSE lines)

\* self.text_wrapper.wrap(message), line 271.
Wrap(text) == WrapChunks(Whole(text), <<>>)

\* (mutant) lines 270-277 without the test of wrap.
Messages_WrapAll(message, wrap) ==
    IF message # <<>> THEN Wrap(message) \o <<SingleSpace>>
    ELSE <<SingleSpace>>

\* Lines 270-277: the messages one send gives to func, in order.
Messages(message, wrap) ==
    IF message # <<>> /\ wrap THEN Wrap(message) \o <<SingleSpace>>
    ELSE IF message # <<>> THEN <<Whole(message)>>
    ELSE <<SingleSpace>>

\* A text that takes n calls of func: one word sent as it is, or n - 1 words
\* of a full line each, wrapped.
GateText(n) ==
    [i \in 1..(IF n > 1 THEN 2 * n - 3 ELSE 1) |->
        IF i % 2 = 1 THEN [sp |-> FALSE, len |-> WrapWidth] ELSE [sp |-> TRUE, len |-> 1]]

\* -------------------------------------------------------- message_or_notice
\* The state the gate is for: connected, autoperform done and, for a
\* channel, the client in it.
Ready(t) == connected /\ autoperform_done /\ (is_channel(t) => in_channel(t))

\* The coroutine's frame: where it is suspended, the calls of func made, the
\* joins issued, whether it slept at the gate, whether the client was in the
\* channel when the gate opened and at the first call of func, whether the
\* last call of func was made in a Ready state, and whether a sleep lay
\* between the last two joins.
S_Frame(pc, sent, joins, deferred, gate_in, first_in, call_ok, slept, spaced) ==
    /\ s_pc' = pc /\ s_sent' = sent /\ s_joins' = joins /\ s_deferred' = deferred
    /\ s_gate_in' = gate_in /\ s_first_in' = first_in /\ s_call_ok' = call_ok
    /\ s_slept' = slept /\ s_spaced' = spaced

\* Lines 270-277: the first call of func.
S_Deliver(t, joins, gate_in) ==
    S_Frame("send", 1, joins, s_deferred', gate_in, is_channel(t) => in_channel(t),
            Ready(t), s_slept, s_spaced)

\* (mutant) lines 262-268 with `if` for the `while` of line 263.
S_JoinLoop_Once(t, joins, gate_in, slept) ==
    IF is_channel(t) /\ ~in_channel(t) /\ joins = 0
    THEN S_Frame("join", 0, 1, s_deferred', gate_in, TRUE, TRUE, FALSE, slept)
    ELSE S_Deliver(t, joins, gate_in)

\* Lines 262-268 from the loop test of line 263 on: one more join, or the
\* first call of func.
S_JoinLoop(t, joins, gate_in, slept) ==
    IF is_channel(t) /\ ~in_channel(t)
    THEN S_Frame("join", 0, IF joins < MaxJoins THEN joins + 1 ELSE joins, s_deferred',
                 gate_in, TRUE, TRUE, FALSE, slept)
    ELSE S_Deliver(t, joins, gate_in)

\* (mutant) the gate of the older client: a send while not connected returns.
S_Gate_Drops(t, deferred) ==
    /\ s_deferred' = deferred
    /\ IF ~(connected /\ autoperform_done)
       THEN S_Frame("done", 0, 0, deferred, "-", TRUE, TRUE, TRUE, TRUE)
       ELSE S_JoinLoop(t, 0, IF ~is_channel(t) THEN "-"
                             ELSE IF in_channel(t) THEN "in" ELSE "out", TRUE)

\* Lines 259-260 from the loop test on: the sleep of line 260, or the gate
\* opens and line 262 follows.
S_Gate(t, deferred) ==
    /\ s_deferred' = deferred
    /\ IF ~(connected /\ autoperform_done)
       THEN S_Frame("gate", 0, 0, deferred, "-", TRUE, TRUE, TRUE, TRUE)
       ELSE S_JoinLoop(t, 0, IF ~is_channel(t) THEN "-"
                             ELSE IF in_channel(t) THEN "in" ELSE "out", TRUE)

\* message, notice, wmessage or wnotice is called for target t with the
\* text message; lines 254-259.  The calls of func of lines 270-277 depend on
\* the arguments only.
S_Call(t, message, wrap) ==
    /\ s_pc \in {"idle", "done"}
    /\ s_target' = t /\ s_text' = message /\ s_wrap' = wrap
    /\ s_n' = Len(Messages(message, wrap))
    /\ S_Gate(t, ~(connected /\ autoperform_done))
    /\ UNCHANGED <<engineVars, autoperform_done, cfgVars, ev_tasks, task, wVars, dVars,
                   cVars, pVars, kVars>>

\* sleep(1) of line 260 returns; the loop test of line 259 again.
S_GateSleep ==
    /\ s_pc = "gate"
    /\ S_Gate(s_target, s_deferred)
    /\ UNCHANGED <<engineVars, autoperform_done, cfgVars, ev_tasks, task, wVars, dVars,
                   cVars, pVars, kVars, s_target, s_n, s_text, s_wrap>>

\* join(target) of line 265 returns or raises (lines 266-267); line 268.
S_Join ==
    /\ s_pc = "join"
    /\ s_pc' = "jsleep"
    /\ UNCHANGED <<engineVars, autoperform_done, cfgVars, ev_tasks, task, wVars, dVars,
                   cVars, pVars, kVars, s_target, s_n, s_sent, s_joins, s_deferred, s_gate_in,
                   s_first_in, s_call_ok, s_slept, s_spaced, s_text, s_wrap>>

\* sleep(1) of line 268 returns; the loop test of line 263 again.
S_JSleep ==
    /\ s_pc = "jsleep"
    /\ s_deferred' = s_deferred
    /\ S_JoinLoop(s_target, s_joins, s_gate_in, TRUE)
    /\ UNCHANGED <<engineVars, autoperform_done, cfgVars, ev_tasks, task, wVars, dVars,
                   cVars, pVars, kVars, s_target, s_n, s_text, s_wrap>>

\* A call of func returns (lines 272-277): the next call, or the return.
S_Send ==
    /\ s_pc = "send"
    /\ IF s_sent < s_n
       THEN S_Frame("send", s_sent + 1, s_joins, s_deferred, s_gate_in, s_first_in,
                    Ready(s_target), s_slept, s_spaced)
       ELSE S_Frame("done", s_sent, s_joins, s_deferred, s_gate_in, s_first_in,
                    s_call_ok, s_slept, s_spaced)
    /\ UNCHANGED <<engineVars, autoperform_done, cfgVars, ev_tasks, task, wVars, dVars,
                   cVars, pVars, kVars, s_target, s_n, s_text, s_wrap>>

\* A second call of message_or_notice, running concurrently with the first:
\* the same coroutine, with the frame p_pc, p_target, p_n, p_sent, p_wrap.
P_Frame(pc, sent) == p_pc' = pc /\ p_sent' = sent

\* Lines 262-268 from the loop test of line 263 on.
P_JoinLoop(t) ==
    IF is_channel(t) /\ ~in_channel(t)
    THEN P_Frame("join", 0)
    ELSE P_Frame("send", 1)

\* Lines 259-260 from the loop test on.
P_Gate(t) ==
    IF ~(connected /\ autoperform_done)
    THEN P_Frame("gate", 0)
    ELSE P_JoinLoop(t)

\* The second call, for target t with the text message; lines 254-259.
P_Call(t, message, wrap) ==
    /\ p_pc \in {"idle", "done"}
    /\ p_target' = t /\ p_wrap' = wrap
    /\ p_n' = Len(Messages(message, wrap))
    /\ P_Gate(t)
    /\ UNCHANGED <<engineVars, autoperform_done, cfgVars, ev_tasks, task, wVars, dVars,
                   cVars, sVars, kVars>>

\* sleep(1) of line 260 returns; the loop test of line 259 again.
P_GateSleep ==
    /\ p_pc = "gate"
    /\ P_Gate(p_target)
    /\ UNCHANGED <<engineVars, autoperform_done, cfgVars, ev_tasks, task, wVars, dVars,
                   cVars, sVars, kVars, p_target, p_n, p_wrap>>

\* join(target) of line 265 returns or raises (lines 266-267); line 268.
P_Join ==
    /\ p_pc = "join"
    /\ p_pc' = "jsleep"
    /\ UNCHANGED <<engineVars, autoperform_done, cfgVars, ev_tasks, task, wVars, dVars,
                   cVars, sVars, kVars, p_target, p_n, p_sent, p_wrap>>

\* sleep(1) of line 268 returns; the loop test of line 263 again.
P_JSleep ==
    /\ p_pc = "jsleep"
    /\ P_JoinLoop(p_target)
    /\ UNCHANGED <<engineVars, autoperform_done, cfgVars, ev_tasks, task, wVars, dVars,
                   cVars, sVars, kVars, p_target, p_n, p_wrap>>

\* A call of func returns (lines 272-277): the next call, or the return.
P_Send ==
    /\ p_pc = "send"
    /\ IF p_sent < p_n THEN P_Frame("send", p_sent + 1) ELSE P_Frame("done", p_sent)
    /\ UNCHANGED <<engineVars, autoperform_done, cfgVars, ev_tasks, task, wVars, dVars,
                   cVars, sVars, kVars, p_target, p_n, p_wrap>>

\* ------------------------------------------------------------ specification
\* The task registry and the session lifecycle: a client with no optional
\* settings and at most one configured channel, and an application that
\* registers tasks of its own.
Init ==
    /\ InitClient
    /\ connect_timeout = DefaultConnectTimeout
    /\ acchannels \in {{}, {"#a"}}
    /\ acconfig = {}

Next ==
    \/ \E n \in Nicks : EngineConnected(n)
    \/ \E n \in Nicks : EngineNick(n)
    \/ \E c \in acchannels : EngineJoin(c)
    \/ \E c \in acchannels : EnginePart(c)
    \/ EngineDisconnect
    \/ AddEvTask
    \/ \E t \in TaskIds : DoneCallback(t)
    \/ \E t \in TaskIds : \E how \in {"returned", "error", "cancelled"} : AppTaskEnd(t, how)
    \/ Welcome
    \/ W_Super
    \/ W_Release
    \/ W_Regain
    \/ W_RSleep
    \/ D_Super
    \/ D_Await
    \/ \E t \in TaskIds : CM_Sleep(t)
    \/ \E t \in TaskIds : CM_Join(t)
    \/ \E t \in TaskIds : CM_Pause(t)

Spec == Init /\ [][Next]_vars

\* The task registry: one session after another under the configured
\* nickname, with application tasks and one channel to keep.
InitRegistry ==
    /\ InitClient
    /\ connect_timeout = DefaultConnectTimeout
    /\ acchannels = {"#a"}
    /\ acconfig = {}

NextRegistry ==
    \/ EngineConnected(NickCfg)
    \/ EngineJoin("#a")
    \/ EngineDisconnect
    \/ AddEvTask
    \/ \E t \in TaskIds : DoneCallback(t)
    \/ \E t \in TaskIds : \E how \in {"returned", "error", "cancelled"} : AppTaskEnd(t, how)
    \/ Welcome
    \/ W_Super
    \/ D_Super
    \/ D_Await
    \/ \E t \in TaskIds : CM_Sleep(t)
    \/ \E t \in TaskIds : CM_Join(t)
    \/ \E t \in TaskIds : CM_Pause(t)

SpecRegistry == InitRegistry /\ [][NextRegistry]_vars

\* The welcome handler: a client with any optional settings and no
\* configured channel, whose server may assign and change the nickname.
InitWelcome ==
    /\ InitClient
    /\ connect_timeout = DefaultConnectTimeout
    /\ acchannels = {}
    /\ acconfig \in SUBSET OptKeys

NextWelcome ==
    \/ \E n \in Nicks : EngineConnected(n)
    \/ \E n \in Nicks : EngineNick(n)
    \/ EngineDisconnect
    \/ \E t \in TaskIds : DoneCallback(t)
    \/ Welcome
    \/ W_Super
    \/ W_Release
    \/ W_Regain
    \/ W_RSleep
    \/ W_Oper
    \/ W_Modes
    \/ W_Away
    \/ D_Super
    \/ D_Await
    \/ \E t \in TaskIds : CM_Sleep(t)

SpecWelcome == InitWelcome /\ [][NextWelcome]_vars

\* The event loop resumes a coroutine whose await has ended and runs the
\* callbacks that are scheduled; the engine's events are not forced.
FairWelcome ==
    /\ SpecWelcome
    /\ WF_vars(W_Super) /\ WF_vars(W_Release) /\ WF_vars(W_Regain) /\ WF_vars(W_RSleep)
    /\ WF_vars(W_Oper) /\ WF_vars(W_Modes) /\ WF_vars(W_Away)
    /\ WF_vars(D_Super) /\ WF_vars(D_Await)
    /\ \A t \in TaskIds : WF_vars(CM_Sleep(t)) /\ WF_vars(DoneCallback(t))

\* The membership maintainer: a client with no optional settings and any
\* configured channel set.
InitMaintainer ==
    /\ InitClient
    /\ connect_timeout = DefaultConnectTimeout
    /\ acchannels \in SUBSET Channels
    /\ acconfig = {}

NextMaintainer ==
    \/ \E n \in Nicks : EngineConnected(n)
    \/ \E c \in Channels : EngineJoin(c)
    \/ \E c \in Channels : EnginePart(c)
    \/ EngineDisconnect
    \/ \E t \in TaskIds : DoneCallback(t)
    \/ Welcome
    \/ W_Super
    \/ W_Release
    \/ W_Regain
    \/ W_RSleep
    \/ D_Super
    \/ D_Await
    \/ \E t \in TaskIds : CM_Sleep(t)
    \/ \E t \in TaskIds : CM_Join(t)
    \/ \E t \in TaskIds : CM_Pause(t)

SpecMaintainer == InitMaintainer /\ [][NextMaintainer]_vars

\* The event loop resumes every coroutine whose await has ended: sleeps
\* run out and calls return.
FairMaintainer ==
    /\ SpecMaintainer
    /\ \A t \in TaskIds : WF_vars(CM_Sleep(t)) /\ WF_vars(CM_Join(t)) /\ WF_vars(CM_Pause(t))
    /\ \A t \in TaskIds : WF_vars(DoneCallback(t))
    /\ WF_vars(W_Super) /\ WF_vars(W_Release) /\ WF_vars(W_Regain) /\ WF_vars(W_RSleep)
    /\ WF_vars(D_Super) /\ WF_vars(D_Await)

\* connect(): a client with no optional settings and every connect_timeout
\* the constructor accepts (lines 138-145).
InitConnect ==
    /\ InitClient
    /\ connect_timeout \in 1..ConnectTimeoutMax
    /\ acchannels = {}
    /\ acconfig = {}

NextConnect ==
    \/ C_Call
    \/ C_DelegateTick
    \/ C_Delegate
    \/ C_Wait
    \/ EngineConnected(NickCfg)
    \/ EngineDisconnect
    \/ D_Super

SpecConnect == InitConnect /\ [][NextConnect]_vars

\* The outbound gate: a client with no optional settings and no configured
\* channel, and an application that sends to a channel or to a user.
InitGate ==
    /\ InitClient
    /\ connect_timeout = DefaultConnectTimeout
    /\ acchannels = {}
    /\ acconfig = {}

NextGate ==
    \/ EngineConnected(NickCfg)
    \/ EngineJoin("#a")
    \/ EnginePart("#a")
    \/ EngineDisconnect
    \/ \E t \in TaskIds : DoneCallback(t)
    \/ Welcome
    \/ W_Super
    \/ W_Release
    \/ W_Regain
    \/ W_RSleep
    \/ D_Super
    \/ D_Await
    \/ \E t \in TaskIds : CM_Sleep(t)
    \/ \E t \in {"#a", "alice"} : \E n \in 1..MaxCalls : S_Call(t, GateText(n), n > 1)
    \/ S_GateSleep
    \/ S_Join
    \/ S_JSleep
    \/ S_Send

SpecGate == InitGate /\ [][NextGate]_vars

\* The event loop resumes the sending coroutine whenever its await has ended.
FairGate ==
    /\ SpecGate
    /\ WF_vars(S_GateSleep) /\ WF_vars(S_Join) /\ WF_vars(S_JSleep) /\ WF_vars(S_Send)

\* The wrapper: a session that stays up, and an application that sends any
\* text of Texts to a user, wrapped or not.
InitWrap ==
    /\ InitClient
    /\ connect_timeout = DefaultConnectTimeout
    /\ acchannels = {}
    /\ acconfig = {}

NextWrap ==
    \/ EngineConnected(NickCfg)
    \/ Welcome
    \/ W_Super
    \/ \E t \in TaskIds : CM_Sleep(t)
    \/ \E text \in Texts : \E wrap \in BOOLEAN : S_Call("alice", text, wrap)
    \/ S_GateSleep
    \/ S_Send

SpecWrap == InitWrap /\ [][NextWrap]_vars

\* Two concurrent wrapped sends: a session that stays up, and an application
\* that runs wmessage or wnotice twice at a time, to a channel or to a user.
InitPair ==
    /\ InitClient
    /\ connect_timeout = DefaultConnectTimeout
    /\ acchannels = {}
    /\ acconfig = {}

NextPair ==
    \/ EngineConnected(NickCfg)
    \/ EngineJoin("#a")
    \/ Welcome
    \/ W_Super
    \/ \E t \in TaskIds : CM_Sleep(t)
    \/ \E t \in {"#a", "alice"} : \E n \in 1..MaxCalls : S_Call(t, GateText(n), TRUE)
    \/ S_GateSleep
    \/ S_Join
    \/ S_JSleep
    \/ S_Send
    \/ \E t \in {"#a", "alice"} : \E n \in 1..MaxCalls : P_Call(t, GateText(n), TRUE)
    \/ P_GateSleep
    \/ P_Join
    \/ P_JSleep
    \/ P_Send

SpecPair == InitPair /\ [][NextPair]_vars

\* Construction: calls of __init__, one after another in one process, with
\* the files and arguments of ConfigInputs.
InitConfig ==
    /\ InitClient
    /\ connect_timeout = DefaultConnectTimeout
    /\ acchannels = {}
    /\ acconfig = {}

NextConfig == \E in \in ConfigInputs : Construct(in)

SpecConfig == InitConfig /\ [][NextConfig]_vars

\* ------------------------------------------------------------------ claims
DFinished == d_pc \in {"returned", "raised"}

\* C1: when on_disconnect has finished, every task that was registered when
\* the disconnect event arrived has received a cancellation request (unless it
\* had ended by itself), none of them is still in ev_tasks (but for a finished
\* task whose done callback is about to run), and autoperform_done is false.
C1_DisconnectCancelsEveryTask ==
    [][(~DFinished /\ DFinished') =>
          (/\ \A t \in d_reg' : t \in d_seen' \/ task'[t].st = "done"
           /\ \A t \in d_reg' : t \notin ev_tasks' \/ task'[t].st = "done"
           /\ ~autoperform_done')]_vars

\* C2: no error propagates out of on_disconnect.
C2_DisconnectNeverRaises == d_pc # "raised"

\* C9: at most one check_membership task is alive at any time, and none is
\* alive while the session is disconnected and on_disconnect has finished.
C9_AtMostOneMaintainer ==
    /\ Cardinality(Maintainers) <= 1
    /\ (~connected /\ DFinished) => Maintainers = {}

\* C10: autoperform_done implies connected; the interval between the
\* connection drop and line 218 of the on_disconnect it starts is left out,
\* so that the claim is held only to what it says of the handlers.
C10_AutoperformDoneImpliesConnected ==
    (autoperform_done /\ d_pc # "super") => connected

AutoperformSteps == {"OPER", "MODE", "AWAY"}

\* The requests of a handler that found the nickname to differ: RELEASE
\* first, REGAIN second, neither again, and everything else after them.
RecoveryLogOK(log) ==
    /\ Len(log) >= 1 => log[1] = "RELEASE"
    /\ Len(log) >= 2 => log[2] = "REGAIN"
    /\ \A i \in 3..Len(log) : log[i] \in AutoperformSteps

\* C7: when on_raw_001 finds the nickname to differ from the configured one,
\* it sends exactly one RELEASE and then exactly one REGAIN before the wait
\* and before any autoperform step (OPER, MODE, away, the spawn of the
\* maintainer), and the wait takes at most RecoveryBudget ticks: every sleep
\* of the wait uses up one of the ticks that are left.
C7_RecoveryOnceAndBounded ==
    [][/\ w_ticks' <= RecoveryBudget
       /\ w_pc' = "rsleep" => (w_rem' >= 1 /\ w_rem' + w_ticks' = RecoveryBudget)
       /\ w_differs' => RecoveryLogOK(w_log')
       /\ (w_differs' /\ w_pc' \in {"rsleep", "oper", "modes", "away"})
             => SubSeq(w_log', 1, 2) = <<"RELEASE", "REGAIN">>
       /\ (w_differs /\ w_pc # "idle" /\ w_pc' = "idle")
             => SubSeq(w_log, 1, 2) = <<"RELEASE", "REGAIN">>
       /\ (~w_differs' /\ w_pc' # "super")
             => \A i \in 1..Len(w_log') : w_log'[i] \in AutoperformSteps
      ]_vars

\* The wait used its whole budget and the handler went on to the operator login.
C7_Witness ==
    /\ w_differs /\ w_ticks = RecoveryBudget /\ w_rem = 0 /\ nickname # NickCfg
    /\ w_pc = "oper" /\ w_log = <<"RELEASE", "REGAIN", "OPER">>

\* C8 (safety): check_membership joins only channels of acchannels, never a
\* channel the client is in when the join is issued, and a sleep of one tick
\* lies between any two of its joins.
C8_JoinsOnlyMissingAndSpaced ==
    \A t \in TaskIds :
        task[t].kind = "cm" =>
            /\ task[t].spaced
            /\ ~task[t].was_in
            /\ task[t].st = "join" => task[t].cur \in acchannels
            /\ task[t].todo \subseteq acchannels

\* A maintainer issued a second join, for another channel, after the pause.
C8_Witness ==
    \E t \in TaskIds :
        /\ task[t].kind = "cm" /\ task[t].st = "join" /\ task[t].cur = "#b"
        /\ task[t].todo = {} /\ acchannels = Channels /\ "#a" \notin channels
        /\ connected /\ autoperform_done

JoinIssued(c) ==
    \E t \in TaskIds : task[t].kind = "cm" /\ task[t].st = "join" /\ task[t].cur = c

\* C8 (liveness): while the session is connected with autoperform done, a
\* configured channel the client is not in is eventually joined by a
\* maintainer (unless the client gets into it otherwise).
C8_EventuallyJoins ==
    \A c \in Channels :
        (connected /\ autoperform_done /\ c \in acchannels /\ c \notin channels)
            ~> (~(connected /\ autoperform_done) \/ c \in channels \/ JoinIssued(c))

\* C6 as claimed: connect() returns within connect_timeout ticks of the
\* start of the call.
C6_ReturnsWithinTimeoutOfCallStart ==
    c_pc = "returned" => c_ticks <= connect_timeout

\* C6 as amended: after super().connect has returned, connect() sleeps at
\* most connect_timeout times, every sleep uses up one tick of the budget,
\* it sleeps only after a loop test that found connected false, and it
\* returns at the first loop test that finds connected true or the budget
\* used up.
C6_WaitsAtMostTimeoutAfterDelegate ==
    /\ c_waited <= connect_timeout
    /\ c_pc = "wait" => (c_rem >= 1 /\ c_rem + c_waited = connect_timeout /\ ~c_last)
    /\ c_pc = "returned" => (c_last \/ c_rem = 0)
    /\ c_pc = "returned" => c_rem + c_waited = connect_timeout

\* connect() returned after the whole of the largest budget, never connected.
C6_Witness ==
    /\ c_pc = "returned" /\ connect_timeout = ConnectTimeoutMax
    /\ c_waited = ConnectTimeoutMax /\ ~c_last /\ ~connected

\* C3: every call of func is made in a state where connected and
\* autoperform_done are true and, for a channel target, the client is in
\* the channel.
C3_EveryCallWhileReady == s_pc = "send" => s_call_ok

\* C4: the first call of func for a channel target is made with the client
\* in the channel; a send that found the client outside the channel when the
\* gate opened has issued a join before it; two joins of one send have a
\* one-tick sleep between them; a send to a target that is no channel issues
\* no join.
C4_JoinBeforeDelivery ==
    /\ (s_pc \in {"send", "done"} /\ s_sent >= 1) => s_first_in
    /\ (s_pc \in {"send", "done"} /\ s_gate_in = "out") => s_joins >= 1
    /\ s_pc \in {"join", "jsleep"} => (is_channel(s_target) /\ s_sent = 0)
    /\ ~is_channel(s_target) => s_joins = 0
    /\ s_spaced

C4_Witness ==
    /\ s_pc = "send" /\ is_channel(s_target) /\ s_gate_in = "out"
    /\ s_joins = 2 /\ s_first_in /\ s_sent = 1

SendPending == s_pc \in {"gate", "join", "jsleep", "send"}
GateOpen == connected /\ autoperform_done /\ in_channel("#a")

\* C5: a send that finds the gate closed stays pending: it does not return
\* before it has made every call of func its text takes, it makes each of
\* them once, and, once the client stays connected with autoperform done and
\* in the channel, it returns.
C5_DeferredSendIsDelivered ==
    /\ [](s_sent <= s_n /\ (s_pc = "done" => s_sent = s_n))
    /\ [][SendPending => (s_pc' = "done" \/ SendPending')]_vars
    /\ (<>[]GateOpen => []<>(~SendPending))

C5_Witness == s_pc = "done" /\ s_deferred /\ s_sent = s_n /\ s_n >= 1

\* The messages the finished send has given to func.
Delivered == SubSeq(Messages(s_text, s_wrap), 1, s_sent)
WrappedLongDone ==
    s_pc = "done" /\ s_wrap /\ s_text # <<>> /\ LineLen(s_text) > WrapWidth

RECURSIVE Flat(_)
Flat(lines) == IF lines = <<>> THEN <<>> ELSE Head(lines) \o Flat(Tail(lines))

WordsOf(text) == {i \in 1..Len(text) : ~text[i].sp}
OnLine(line, i) == \E k \in 1..Len(line) : line[k].src = i
\* Word i of the text is on one line only.
Unsplit(lines, i) ==
    \A a, b \in 1..Len(lines) : (OnLine(lines[a], i) /\ OnLine(lines[b], i)) => a = b
\* The lines hold no whitespace but between words of one line; their pieces,
\* in order, are the words of the text in order, each in full.
Reproduces(lines, text) ==
    LET flat   == Flat(lines)
        pieces == SelectSeq(flat, LAMBDA q : ~q.sp)
    IN  /\ \A k \in 1..(Len(pieces) - 1) : pieces[k].src <= pieces[k + 1].src
        /\ \A i \in WordsOf(text) :
              LineLen(SelectSeq(pieces, LAMBDA q : q.src = i)) = text[i].len
        /\ \A k \in 1..Len(lines) : ~lines[k][1].sp \/ k = 1

C12_OneMessageUnwrapped ==
    (s_pc \in {"gate", "send", "done"} /\ (~s_wrap \/ s_text = <<>>)) =>
        /\ s_n = 1
        /\ s_sent <= 1
        /\ s_pc \in {"send", "done"} =>
              Delivered = <<IF s_text # <<>> THEN Whole(s_text) ELSE SingleSpace>>

C12_Witness ==
    /\ s_pc = "done" /\ ~s_wrap /\ LineLen(s_text) > WrapWidth /\ Len(s_text) = MaxChunks
    /\ s_deferred /\ s_sent = 1

\* The string is an integer within 1..max.
ValidInt(raw, max) == IsInt(raw) /\ IntVal(raw) >= 1 /\ IntVal(raw) <= max

\* C13: a call of __init__ whose file gives connect_timeout or port a value
\* that is not an integer within the setting's range ends with an error and
\* does not reach the base constructor.
C13_BadIntegerFails ==
    (/\ k_in.path
     /\ \/ k_in.has_timeout /\ ~ValidInt(k_in.timeout, ConnectTimeoutMax)
        \/ k_in.has_port /\ ~ValidInt(k_in.port, PortMax))
    => (k_result[1] # "ok" /\ ~k_base)

\* The required keys, built-in or the caller's, that the settings (the file
\* and the defaults) of the last call lack.
Missing ==
    LET required == {RequiredKeys[i] : i \in 1..Len(RequiredKeys)}
                    \cup (IF k_in.own_req
                          THEN {k_in.req_list[i] : i \in 1..Len(k_in.req_list)} ELSE {})
        settings == ConfigKeys(k_in, (IF k_in.own_def THEN k_in.def_keys ELSE {})
                                     \cup DefaultKeys)
    IN  required \ settings

\* C14: a call of __init__ ends with a KeyError exactly when its settings
\* lack a required key; the error names a key they lack and the base
\* constructor is not reached; whatever calls came before.
C14_MissingKeyFails ==
    k_in.path =>
        /\ (k_result[1] = "KeyError") <=> (Missing # {})
        /\ Missing # {} => (k_result[2] \in Missing /\ ~k_base)

C14_Witness ==
    /\ k_dflt_req # <<>> /\ k_dflt_def # {}
    /\ k_in.own_req /\ Missing = {CallerKey}
    /\ k_result = <<"KeyError", CallerKey>> /\ ~k_base

\* The autoperform requests the settings call for, in the order of the code.
ExpectedSteps ==
    (IF HasOper THEN <<"OPER">> ELSE <<>>)
    \o (IF "connect_modes" \in acconfig THEN <<"MODE">> ELSE <<>>)
    \o (IF "away_message" \in acconfig THEN <<"AWAY">> ELSE <<>>)
AutoLog(log) == SelectSeq(log, LAMBDA x : x \in AutoperformSteps)
IsPrefix(a, b) == Len(a) <= Len(b) /\ SubSeq(b, 1, Len(a)) = a
HandlerEnds == w_pc # "idle" /\ w_pc' = "idle"

\* C15: on_raw_001 sends OPER (with both credentials configured), MODE (with
\* connect_modes) and away (with away_message) in this order and no other
\* autoperform request; it starts none of them, and does not spawn the
\* maintainer, before the identity recovery has ended (no recovery needed,
\* the nickname regained, or the budget used up); it ends by registering a
\* new check_membership task and setting autoperform_done in one step, after
\* all the requests; and nothing else sets autoperform_done.
C15_AutoperformInOrder ==
    [][/\ IsPrefix(AutoLog(w_log'), ExpectedSteps)
       /\ (AutoLog(w_log') # AutoLog(w_log) \/ HandlerEnds) =>
             \/ w_pc \in {"oper", "modes", "away"}
             \/ w_pc = "super" /\ nickname = NickCfg
             \/ w_pc \in {"regain", "rsleep"} /\ nickname = NickCfg
             \/ w_pc = "rsleep" /\ w_rem = 1
       /\ HandlerEnds =>
             /\ AutoLog(w_log) = ExpectedSteps
             /\ autoperform_done'
             /\ \E t \in ev_tasks' \ ev_tasks :
                   task'[t].kind = "cm" /\ task'[t].st # "done" /\ t \in FreeIds
       /\ (autoperform_done' /\ ~autoperform_done) => HandlerEnds
      ]_vars

\* Every request was sent, after a recovery, and the maintainer is not spawned yet.
C15_Witness ==
    /\ w_pc = "away" /\ ~autoperform_done /\ Maintainers = {}
    /\ w_log = <<"RELEASE", "REGAIN", "OPER", "MODE", "AWAY">>

\* C16: a check_membership task with a cancellation request pending ends, as
\* cancelled, when it next runs, whichever await it is suspended at: it
\* issues no further join.
C16_CancelledMaintainerStops ==
    [][\A t \in TaskIds :
          (task[t].kind = "cm" /\ task[t].cancel /\ task'[t] # task[t])
              => (task'[t].st = "done" /\ task'[t].res = "cancelled")
      ]_vars

\* C19: on_disconnect, once started, ends: every await of a cancelled task
\* returns.
C19_DisconnectTerminates ==
    (d_pc \in {"super", "await"}) ~> (d_pc \in {"returned", "raised"})

\* C17: a started on_raw_001 ends, with autoperform_done true, whatever the
\* identity recovery came to, and its last step spawns exactly one
\* check_membership task.
C17_WelcomeCompletesAutoperform ==
    /\ (w_pc # "idle") ~> (w_pc = "idle" /\ autoperform_done)
    /\ [][HandlerEnds =>
             /\ autoperform_done'
             /\ Cardinality({t \in FreeIds : task'[t].kind = "cm" /\ task'[t].st # "done"}) = 1
             /\ \A t \in TaskIds : (task[t].kind = "cm" /\ task[t].st # "done")
                                       => task'[t] = task[t]
         ]_vars

\* The client was never disconnected, the handler has ended, and the
\* nickname is not the configured one.
C17_Witness ==
    /\ w_pc = "idle" /\ autoperform_done /\ connected /\ welcomed
    /\ d_pc = "idle" /\ nickname # NickCfg
    /\ Cardinality(Maintainers) = 1 /\ Maintainers \subseteq ev_tasks

\* C18: every task that has not finished is in ev_tasks, and ev_tasks holds
\* no other task but a finished one whose done callback, which removes it,
\* is scheduled and has not run yet.
C18_RegistryHoldsLiveTasks ==
    \A t \in TaskIds :
        /\ Alive(t) => t \in ev_tasks
        /\ t \in ev_tasks => (Alive(t) \/ (task[t].st = "done" /\ task[t].cb))

\* An application task ended with an error and has removed itself, while
\* a live maintainer is registered.
C18_Witness ==
    /\ \E t \in TaskIds : /\ task[t].kind = "app" /\ task[t].st = "done"
                          /\ task[t].res = "error" /\ ~task[t].cb /\ t \notin ev_tasks
    /\ \E u \in TaskIds : task[u].kind = "cm" /\ Alive(u) /\ u \in ev_tasks

\* A wrapped send has made its first call of func and not yet the call
\* with the single space that ends it.
SMidSend == s_pc = "send" /\ s_wrap /\ 1 <= s_sent /\ s_sent < s_n
PMidSend == p_pc = "send" /\ p_wrap /\ 1 <= p_sent /\ p_sent < p_n

\* C20: of two concurrent wrapped sends to one target, neither makes a call
\* of func (a line or the closing single space) while the other is between
\* its first line and its closing single space.
C20_WrappedSendsAreUnits ==
    [][/\ (SMidSend /\ SMidSend' /\ s_sent' = s_sent /\ p_wrap' /\ p_target' = s_target)
            => ~(p_pc' = "send" /\ (p_pc # "send" \/ p_sent' # p_sent))
       /\ (PMidSend /\ PMidSend' /\ p_sent' = p_sent /\ s_wrap' /\ s_target' = p_target)
            => ~(s_pc' = "send" /\ (s_pc # "send" \/ s_sent' # s_sent))
      ]_vars

====
